---- MODULE Spec2Model ----
(***************************************************************************)
(* A model of uv-resolver's resolution output core:                        *)
(*   crates/uv-resolver/src/resolution.rs   ResolutionGraph::from_state,   *)
(*       ResolutionGraph::marker_tree, DisplayResolutionGraph::fmt         *)
(*   crates/uv-resolver/src/pubgrub/package.rs   PubGrubPackage            *)
(*                                                                         *)
(* Package names, versions, extras, hashes and urls are small naturals;    *)
(* their order is the order of the naturals.  An Option is None (0) or the *)
(* value; an optional list is the empty set or a singleton set.            *)
(***************************************************************************)
EXTENDS Integers, Sequences, FiniteSets, TLC

\* ------------------------------------------------------------- bounds
NumNames == 3
MaxVersion == 2
NumExtras == 1
NumMarkers == 2
MaxEntries == 3
MaxDeps == 2

\* Option::None of extra, marker and url
None == 0

PackageName == 1..NumNames
\* the names whose identities, urls and editables the inputs vary; the last name is
\* only ever a plain registry package
VariedNames == 1..(NumNames - 1)
Version == 1..MaxVersion
ExtraName == 1..NumExtras
MarkerId == 1..NumMarkers

\* ------------------------------------------------------------ helpers
\* FxHashMap::insert / entry().or_insert_with(): a map as a function on its keys
Put(f, k, v) == [x \in (DOMAIN f) \cup {k} |-> IF x = k THEN v ELSE f[x]]

Get(f, k, default) == IF k \in DOMAIN f THEN f[k] ELSE default

RECURSIVE InsertSorted(_, _)
InsertSorted(s, x) ==
    IF s = <<>> THEN <<x>>
    ELSE IF x <= Head(s) THEN <<x>> \o s
    ELSE <<Head(s)>> \o InsertSorted(Tail(s), x)

\* Vec::sort_unstable on a list of totally ordered values
RECURSIVE sort_unstable(_)
sort_unstable(s) ==
    IF s = <<>> THEN <<>> ELSE InsertSorted(sort_unstable(Tail(s)), Head(s))

IsSorted(s) == \A i \in 1..(Len(s) - 1) : s[i] <= s[i + 1]

Range(s) == {s[i] : i \in 1..Len(s)}

AtMostOne(S) == {{}} \cup {{x} : x \in S}

\* ------------------------------------------------- package identities
\* PubGrubPackage: Root, or Package { name, extra, marker, url }
PubGrubPackage ==
    [kind : {"Package"}, name : PackageName, extra : {None} \cup ExtraName,
     marker : {None} \cup MarkerId, url : {None} \cup PackageName]
    \cup {[kind |-> "Root", name |-> None, extra |-> None, marker |-> None, url |-> None]}

\* from_package reading the urls registry only for an identity without an extra
from_package_base_url(name, extra, marker, urls) ==
    [kind |-> "Package", name |-> name, extra |-> extra, marker |-> marker,
     url |-> IF extra = None THEN Get(urls, name, None) ELSE None]

\* PubGrubPackage::from_package: urls maps a name to the url declared for it
from_package(name, extra, marker, urls) ==
    [kind |-> "Package", name |-> name, extra |-> extra, marker |-> marker,
     url |-> Get(urls, name, None)]

\* One (package, version) pair of resolution.packages
Entry(p, v) == [pkg |-> p, version |-> v]

IsReal(p) == p.kind = "Package" /\ p.extra = None /\ p.marker = None

\* --------------------------------------------------------- distributions
NoUrl == [raw |-> None, given |-> None]

\* A VerbatimUrl: the url fetched (raw) and the string the user gave
VerbatimUrl(u) == [raw |-> u, given |-> u]

\* The precise url the redirect table holds for u
Precise(u) == u + NumNames

\* apply_redirect keeps the user's string and replaces the fetch target
apply_redirect(url, precise) == [raw |-> precise, given |-> url.given]

\* resolution.pins.get(name, version): the registry distribution pinned
Pins(name, version) ==
    [kind |-> "registry", name |-> name, version |-> version, url |-> NoUrl]

\* LocalEditable::verbatim of the editable of a name: not the order of the names
EditableVerbatim(name) == NumNames + 1 - name

\* Dist::from_editable(name, editable)
from_editable(name) ==
    [kind |-> "editable", name |-> name, version |-> None,
     url |-> VerbatimUrl(EditableVerbatim(name))]

\* Dist::from_url(name, url)
from_url(name, url) == [kind |-> "url", name |-> name, version |-> None, url |-> url]

\* PubGrubDistribution::package_id / PackageId::from_registry, from_url
PackageIdRegistry(name, version) == <<"registry", name, version>>
PackageIdUrl(u) == <<"url", u>>

\* ------------------------------------------------------------- state
VARIABLES
    input,        \* the arguments of from_state and of marker_tree: never changes
    pc,           \* "passA", "passB", "done": where from_state is
    pending,      \* the (package, version) pairs of resolution.packages not yet visited
    current,      \* the package whose versions the inner loop is visiting
    next_dep,     \* the position in resolution.dependencies of the next entry
    petgraph,     \* [nodes: list of ResolvedDist, edges: (from, to) -> range]
    inverse,      \* name -> NodeIndex
    hashes,       \* name -> list of hashes
    extras,       \* name -> list of extras
    markers,      \* (name, version) -> the list of an Or of markers
    diagnostics,  \* list of MissingExtra
    result,       \* "none" while running, then "Ok", "Err" or "Panic"
    rendered,     \* what DisplayResolutionGraph::fmt wrote last, with its options
    marker_out,   \* what marker_tree returned last
    urls,         \* the Urls registry handed to from_package: name -> url
    built         \* the identities from_package has returned

vars == <<input, pc, pending, current, next_dep, petgraph, inverse, hashes, extras,
          markers, diagnostics, result, rendered, marker_out, urls, built>>

\* ------------------------------------------------- the collaborators' tables
\* Editables::get(name) is Some
IsEditable(name) == name \in input.editables

\* Dist::from_editable / Dist::from_url return Err for these names
IsBroken(name) == name \in input.broken

\* Preferences::match_hashes(name, version): the empty set, or one list
match_hashes(name, version) ==
    {t[3] : t \in {x \in input.preferences : x[1] = name /\ x[2] = version}}

\* index.packages.get(name) is Some(VersionsResponse::Found(_))
IsFound(name) == name \in input.found

\* VersionMap::hashes(version): the hashes of the files of that version, in file order
VersionMapHashes(name, version) ==
    IF version % 2 = 1 THEN <<version + 1, version>> ELSE <<version>>

\* Metadata::provides_extras of index.distributions[id]
ProvidesExtras(id) == {x[2] : x \in {y \in input.provides : y[1] = id}}

\* Metadata::provides_extras of the editable of a name
EditableProvidesExtras(name) == ProvidesExtras(<<"editable", name>>)

\* the url as it was given, whatever index.redirects holds
NotRedirected(u) == VerbatimUrl(u)

\* index.redirects.get(url): applied when the table holds the url
Redirected(u) ==
    IF u \in input.redirects THEN apply_redirect(VerbatimUrl(u), Precise(u))
    ELSE VerbatimUrl(u)

\* --------------------------------------------------- from_state, Pass A
\* The locals of from_state
Locals ==
    [petgraph |-> petgraph, inverse |-> inverse, hashes |-> hashes, extras |-> extras,
     markers |-> markers, diagnostics |-> diagnostics, result |-> result]

EmptyLocals ==
    [petgraph |-> [nodes |-> <<>>, edges |-> <<>>], inverse |-> <<>>, hashes |-> <<>>,
     extras |-> <<>>, markers |-> <<>>, diagnostics |-> <<>>, result |-> "none"]

\* `?` on an Err: from_state returns the error and its locals are dropped
ReturnErr == [EmptyLocals EXCEPT !.result = "Err"]

\* a failed expect / unwrap / index: the thread panics
Panicked == [EmptyLocals EXCEPT !.result = "Panic"]

\* the marker arm with markers.insert(key, marker): the last marker replaces the rest
AddMarkerInsert(st, name, version, marker) ==
    [st EXCEPT !.markers = Put(@, <<name, version>>, <<marker>>)]

\* extra: None, marker: Some(marker), url: None
AddMarker(st, name, version, marker) ==
    LET key == <<name, version>>
    IN  [st EXCEPT !.markers = Put(@, key, Append(Get(@, key, <<>>), marker))]

\* "Add its hashes to the index, preserving those that were already present"
ResolveHashes(hs, name, version) ==
    IF match_hashes(name, version) # {}
    THEN Put(hs, name, CHOOSE h \in match_hashes(name, version) : TRUE)
    ELSE IF IsFound(name)
         THEN Put(hs, name, sort_unstable(VersionMapHashes(name, version)))
         ELSE hs

\* add_node without the inverse.insert that Pass B relies on
AddNodeOnly(st, name, version, dist) ==
    [st EXCEPT !.hashes = ResolveHashes(@, name, version),
               !.petgraph.nodes = Append(@, dist)]

\* petgraph.add_node(..) and inverse.insert(package_name, index)
AddNode(st, name, version, dist) ==
    LET index == Len(st.petgraph.nodes) + 1
    IN  [st EXCEPT !.hashes = ResolveHashes(@, name, version),
                   !.petgraph.nodes = Append(@, dist),
                   !.inverse = Put(@, name, index)]

\* extra: None, marker: None, url: None
AddRegistryPackage(st, name, version) ==
    IF IsEditable(name)
    THEN IF IsBroken(name) THEN ReturnErr
         ELSE AddNode(st, name, version, from_editable(name))
    ELSE AddNode(st, name, version, Pins(name, version))

\* the url arm leaving out a package whose distribution cannot be built
AddUrlPackageSkipBroken(st, name, version, url) ==
    IF IsBroken(name) THEN st
    ELSE IF IsEditable(name) THEN AddNode(st, name, version, from_editable(name))
    ELSE AddNode(st, name, version, from_url(name, Redirected(url)))

\* the url arm building the distribution from the url for an editable name too
AddUrlPackageFromUrl(st, name, version, url) ==
    IF IsBroken(name) THEN ReturnErr
    ELSE AddNode(st, name, version, from_url(name, Redirected(url)))

\* extra: None, marker: None, url: Some(url)
AddUrlPackage(st, name, version, url) ==
    IF IsEditable(name)
    THEN IF IsBroken(name) THEN ReturnErr
         ELSE AddNode(st, name, version, from_editable(name))
    ELSE IF IsBroken(name) THEN ReturnErr
         ELSE AddNode(st, name, version, from_url(name, Redirected(url)))

MissingExtra(dist, extra) == [dist |-> dist, extra |-> extra]

PushExtra(st, name, extra) ==
    [st EXCEPT !.extras = Put(@, name, Append(Get(@, name, <<>>), extra))]

\* PushDiagnostic with the missing extra taken for a fatal error
PushDiagnosticOrAbort(st, dist, extra) == ReturnErr

PushDiagnostic(st, dist, extra) ==
    [st EXCEPT !.diagnostics = Append(@, MissingExtra(dist, extra))]

\* the editable arm of both extra cases
AddEditableExtra(st, name, extra) ==
    IF extra \in EditableProvidesExtras(name) THEN PushExtra(st, name, extra)
    ELSE IF IsBroken(name) THEN ReturnErr
    ELSE PushDiagnostic(st, from_editable(name), extra)

\* extra: Some(extra), marker: None, url: None
AddRegistryExtra(st, name, version, extra) ==
    IF IsEditable(name) THEN AddEditableExtra(st, name, extra)
    ELSE IF extra \in ProvidesExtras(PackageIdRegistry(name, version))
         THEN PushExtra(st, name, extra)
         ELSE PushDiagnostic(st, Pins(name, version), extra)

\* extra: Some(extra), marker: None, url: Some(url)
AddUrlExtra(st, name, url, extra) ==
    IF IsEditable(name) THEN AddEditableExtra(st, name, extra)
    ELSE IF extra \in ProvidesExtras(PackageIdUrl(url))
         THEN PushExtra(st, name, extra)
         ELSE IF IsBroken(name) THEN ReturnErr
              ELSE PushDiagnostic(st, from_url(name, Redirected(url)), extra)

\* The body of the loops over resolution.packages and its versions: the match
AddPackage(st, e) ==
    LET p == e.pkg
        v == e.version
    IN  CASE p.kind = "Package" /\ p.extra = None /\ p.marker # None /\ p.url = None ->
                AddMarker(st, p.name, v, p.marker)
          [] p.kind = "Package" /\ p.extra = None /\ p.marker = None /\ p.url = None ->
                AddRegistryPackage(st, p.name, v)
          [] p.kind = "Package" /\ p.extra = None /\ p.marker = None /\ p.url # None ->
                AddUrlPackage(st, p.name, v, p.url)
          [] p.kind = "Package" /\ p.extra # None /\ p.marker = None /\ p.url = None ->
                AddRegistryExtra(st, p.name, v, p.extra)
          [] p.kind = "Package" /\ p.extra # None /\ p.marker = None /\ p.url # None ->
                AddUrlExtra(st, p.name, p.url, p.extra)
          [] OTHER -> st

SetLocals(st) ==
    /\ petgraph' = st.petgraph
    /\ inverse' = st.inverse
    /\ hashes' = st.hashes
    /\ extras' = st.extras
    /\ markers' = st.markers
    /\ diagnostics' = st.diagnostics
    /\ result' = st.result

\* One iteration of the inner loop.  The maps are hash maps: the packages come in
\* any order, and the versions of one package in any order, one package at a time.
PassA ==
    /\ pc = "passA"
    /\ \E e \in pending :
        /\ (\E o \in pending : o.pkg = current) => e.pkg = current
        /\ LET st == AddPackage(Locals, e)
           IN  /\ SetLocals(st)
               /\ current' = e.pkg
               /\ IF st.result = "Err"
                  THEN pc' = "done" /\ pending' = pending
                  ELSE /\ pending' = pending \ {e}
                       /\ pc' = IF pending' = {} THEN "passB" ELSE "passA"
    /\ UNCHANGED <<urls, built>>
    /\ UNCHANGED <<input, next_dep, rendered, marker_out>>

\* --------------------------------------------------- from_state, Pass B
\* Graph::update_edge(a, b, weight): adds the edge, or replaces the weight of the
\* edge that exists; then the ranges of the entry are united into the weight.
InstallEdge(st, dep) ==
    IF dep.from \notin DOMAIN st.inverse \/ dep.to \notin DOMAIN st.inverse
    THEN Panicked
    ELSE LET edge == <<st.inverse[dep.from], st.inverse[dep.to]>>
             empty == {}
         IN  [st EXCEPT !.petgraph.edges = Put(@, edge, empty \cup UNION dep.ranges)]

\* One iteration of the loop over resolution.dependencies
PassB ==
    /\ pc = "passB"
    /\ next_dep <= Len(input.dependencies)
    /\ LET st == InstallEdge(Locals, input.dependencies[next_dep])
       IN  /\ SetLocals(st)
           /\ IF st.result = "Panic"
              THEN pc' = "done" /\ next_dep' = next_dep
              ELSE pc' = "passB" /\ next_dep' = next_dep + 1
    /\ UNCHANGED <<urls, built>>
    /\ UNCHANGED <<input, pending, current, rendered, marker_out>>

\* Ok(Self { petgraph, hashes, extras, markers, editables, diagnostics })
ReturnOk ==
    /\ pc = "passB"
    /\ next_dep > Len(input.dependencies)
    /\ pc' = "done"
    /\ result' = "Ok"
    /\ UNCHANGED <<urls, built>>
    /\ UNCHANGED <<input, pending, current, next_dep, petgraph, inverse, hashes, extras,
                   markers, diagnostics, rendered, marker_out>>

\* ------------------------------------------- DisplayResolutionGraph::fmt
\* The fields of DisplayResolutionGraph besides the graph
RenderOptions ==
    {o \in [no_emit_packages : AtMostOne(PackageName), show_hashes : BOOLEAN,
             include_extras : BOOLEAN, include_annotations : BOOLEAN,
             annotation_style : {"Line", "Split"}] :
        ~o.include_annotations => o.annotation_style = "Split"}

\* the filter_map closure of fmt passing None for the marker when extras are left out
RenderNodeDropMarker(g, index, opts) ==
    LET dist == g.petgraph.nodes[index]
        name == dist.name
        key == <<name, dist.version>>
        marker == IF key \in DOMAIN g.markers THEN {g.markers[key]} ELSE {}
        base == [index |-> index, name |-> name, dist |-> dist, extras |-> <<>>,
                 markers |-> {}]
    IN  IF IsEditable(name) THEN [tag |-> "Editable"] @@ base
        ELSE IF dist.kind # "registry" THEN [tag |-> "unreachable"] @@ base
        ELSE IF opts.include_extras
             THEN [tag |-> "Distribution"] @@
                  [base EXCEPT !.extras = Get(g.extras, name, <<>>), !.markers = marker]
             ELSE [tag |-> "Distribution"] @@ base

\* Node::Editable(name, editable) / Node::Distribution(name, dist, extras, markers);
\* "unreachable" where fmt meets `_ => unreachable!()`
RenderNode(g, index, opts) ==
    LET dist == g.petgraph.nodes[index]
        name == dist.name
        key == <<name, dist.version>>
        marker == IF key \in DOMAIN g.markers THEN {g.markers[key]} ELSE {}
        base == [index |-> index, name |-> name, dist |-> dist, extras |-> <<>>,
                 markers |-> {}]
    IN  IF IsEditable(name) THEN [tag |-> "Editable"] @@ base
        ELSE IF dist.kind # "registry" THEN [tag |-> "unreachable"] @@ base
        ELSE IF opts.include_extras
             THEN [tag |-> "Distribution"] @@
                  [base EXCEPT !.extras = Get(g.extras, name, <<>>), !.markers = marker]
             ELSE [tag |-> "Distribution"] @@ [base EXCEPT !.markers = marker]

\* NodeKey without the tag of the variant: every node sorts by its package name
NodeKeyByName(node) == <<1, node.name, node.index>>

\* NodeKey with the node's index: Editable(verbatim) sorts before Distribution(name)
NodeKey(node) ==
    IF node.tag = "Editable" THEN <<0, EditableVerbatim(node.name), node.index>>
    ELSE <<1, node.name, node.index>>

KeyLess(a, b) ==
    \/ a[1] < b[1]
    \/ a[1] = b[1] /\ a[2] < b[2]
    \/ a[1] = b[1] /\ a[2] = b[2] /\ a[3] < b[3]

RECURSIVE InsertNode(_, _)
InsertNode(s, n) ==
    IF s = <<>> THEN <<n>>
    ELSE IF KeyLess(NodeKey(n), NodeKey(Head(s))) THEN <<n>> \o s
    ELSE <<Head(s)>> \o InsertNode(Tail(s), n)

\* nodes.sort_unstable_by_key(|(index, node)| (node.key(), *index))
RECURSIVE SortNodes(_)
SortNodes(s) == IF s = <<>> THEN <<>> ELSE InsertNode(SortNodes(Tail(s)), Head(s))

\* Vec::dedup: drops an element equal to the one before it
RECURSIVE dedup(_)
dedup(s) ==
    IF Len(s) < 2 THEN s
    ELSE IF s[1] = s[2] THEN dedup(Tail(s))
    ELSE <<s[1]>> \o dedup(Tail(s))

\* Verbatim for Node: "-e <verbatim>", or <name>[<extras>]<version> # <markers>
NodeVerbatim(node) ==
    IF node.tag = "Editable"
    THEN [form |-> "-e", text |-> EditableVerbatim(node.name), extras |-> <<>>,
          version |-> None, comment |-> {}]
    ELSE [form |-> "==", text |-> node.name,
          extras |-> dedup(sort_unstable(node.extras)),
          version |-> node.dist.version, comment |-> node.markers]

\* edges_directed(index, Incoming) mapped to the source nodes, left in the order the
\* graph yields them
IncomingUnsorted(g, index) ==
    LET nodes == g.petgraph.nodes
        RECURSIVE Sources(_)
        Sources(i) ==
            IF i = 0 THEN <<>>
            ELSE (IF <<i, index>> \in DOMAIN g.petgraph.edges THEN <<nodes[i].name>>
                  ELSE <<>>) \o Sources(i - 1)
    IN  Sources(Len(nodes))

\* edges_directed(index, Incoming) mapped to the source nodes, one per edge, then
\* sort_unstable_by_key(|package| package.dist.name()): the names of the requesters
Incoming(g, index) ==
    LET nodes == g.petgraph.nodes
        RECURSIVE Sources(_)
        Sources(i) ==
            IF i = 0 THEN <<>>
            ELSE (IF <<i, index>> \in DOMAIN g.petgraph.edges THEN <<nodes[i].name>>
                  ELSE <<>>) \o Sources(i - 1)
    IN  sort_unstable(Sources(Len(nodes)))

NoAnnotation == [shape |-> "none", separator |-> "", deps |-> <<>>]

Annotation(g, index, opts, has_hashes) ==
    LET edges == Incoming(g, index)
    IN  IF ~opts.include_annotations \/ edges = <<>> THEN NoAnnotation
        ELSE IF opts.annotation_style = "Line"
             THEN [shape |-> "# via a, b", deps |-> edges,
                   separator |-> IF has_hashes THEN "\n    " ELSE "  "]
        ELSE IF Len(edges) = 1
             THEN [shape |-> "    # via a", deps |-> edges, separator |-> "\n"]
        ELSE [shape |-> "    # via\n    #   a", deps |-> edges, separator |-> "\n"]

\* what the loop over the sorted nodes writes for one node
RenderLine(g, node, opts) ==
    LET hs == IF opts.show_hashes THEN Get(g.hashes, node.name, <<>>) ELSE <<>>
    IN  [line |-> NodeVerbatim(node), hashes |-> hs,
         annotation |-> Annotation(g, node.index, opts, hs # <<>>)]

\* the nodes fmt collects: those whose name is not in no_emit_packages
Collected(g, opts) ==
    LET RECURSIVE Collect(_)
        Collect(i) ==
            IF i > Len(g.petgraph.nodes) THEN <<>>
            ELSE IF g.petgraph.nodes[i].name \in opts.no_emit_packages
                 THEN Collect(i + 1)
            ELSE <<RenderNode(g, i, opts)>> \o Collect(i + 1)
    IN  Collect(1)

NotRendered == [status |-> "none", opts |-> <<>>, out |-> <<>>]

\* <DisplayResolutionGraph as Display>::fmt on the graph g
Display(g, opts) ==
    LET nodes == Collected(g, opts)
        sorted == SortNodes(nodes)
    IN  IF \E i \in 1..Len(nodes) : nodes[i].tag = "unreachable"
        THEN [status |-> "Panic", opts |-> opts, out |-> <<>>]
        ELSE [status |-> "Ok", opts |-> opts,
              out |-> [i \in 1..Len(sorted) |-> RenderLine(g, sorted[i], opts)]]

\* ----------------------------------------------- ResolutionGraph::marker_tree
\* MarkerValue: an environment parameter, `extra`, or a quoted string
MarkerEnvVersion(p) == [kind |-> "MarkerEnvVersion", v |-> p]
MarkerEnvString(p) == [kind |-> "MarkerEnvString", v |-> p]
Extra == [kind |-> "Extra", v |-> ""]
QuotedString(x) == [kind |-> "QuotedString", v |-> x]

\* MarkerTree::Expression(MarkerExpression { l_value, operator, r_value })
Expression(l, op, r) ==
    [op |-> "Expression", l_value |-> l, operator |-> op, r_value |-> r, args |-> <<>>]

\* MarkerTree::And(exprs) / MarkerTree::Or(exprs)
And(exprs) == [op |-> "And", l_value |-> Extra, operator |-> "", r_value |-> Extra,
               args |-> exprs]
Or(exprs) == [op |-> "Or", l_value |-> Extra, operator |-> "", r_value |-> Extra,
              args |-> exprs]

\* MarkerParam::Version(_) / MarkerParam::String(_), when the value is a parameter
add_marker_value(value) ==
    IF value.kind = "MarkerEnvVersion" THEN {[kind |-> "Version", v |-> value.v]}
    ELSE IF value.kind = "MarkerEnvString" THEN {[kind |-> "String", v |-> value.v]}
    ELSE {}

\* the parameters add_marker_params_from_tree inserts into the set
RECURSIVE add_marker_params_from_tree(_)
\* add_marker_params_from_tree reading only the left side of an expression
add_marker_params_from_left(tree) ==
    IF tree.op = "Expression" THEN add_marker_value(tree.l_value)
    ELSE UNION {add_marker_params_from_tree(tree.args[i]) : i \in 1..Len(tree.args)}

add_marker_params_from_tree(tree) ==
    IF tree.op = "Expression"
    THEN add_marker_value(tree.l_value) \cup add_marker_value(tree.r_value)
    ELSE UNION {add_marker_params_from_tree(tree.args[i]) : i \in 1..Len(tree.args)}

\* Version::to_string: the release numbers joined by "."
RECURSIVE VersionToString(_)
VersionToString(release) ==
    IF Len(release) = 1 THEN <<release[1]>>
    ELSE <<release[1], ".">> \o VersionToString(Tail(release))

\* the equality term marker_tree builds for one parameter
Conjunct(param, marker_env) ==
    IF param.kind = "Version"
    THEN Expression(MarkerEnvVersion(param.v), "Equal",
                    QuotedString(VersionToString(marker_env.get_version[param.v])))
    ELSE Expression(MarkerEnvString(param.v), "Equal",
                    QuotedString(marker_env.get_string[param.v]))

\* the PackageId marker_tree looks the metadata of a node up with
NodePackageId(dist) ==
    IF dist.kind = "registry" THEN PackageIdRegistry(dist.name, dist.version)
    ELSE PackageIdUrl(dist.url.raw)

\* Manifest::apply: the requirements as they are (no override is declared)
Apply(reqs) == reqs

\* the markers of the requirements a source lists
MarkersOf(reqs, source) ==
    UNION {r.marker : r \in {x \in Apply(reqs) : x.source = source}}

\* seen_marker_values: of the metadata of every node, then of the manifest's direct
\* requirements and of its editables' requirements
SeenMarkerValues(reqs) ==
    LET nodes == petgraph.nodes
        of_nodes ==
            UNION {MarkersOf(reqs, <<"requires_dist", NodePackageId(nodes[i])>>) :
                     i \in 1..Len(nodes)}
        direct == MarkersOf(reqs, <<"manifest">>) \cup MarkersOf(reqs, <<"editable">>)
    IN  UNION {add_marker_params_from_tree(t) : t \in of_nodes \cup direct}

\* the lists of a Vec in place of the set: a parameter met again is pushed again
OrdersOfVec(S) ==
    {q \in [1..Cardinality(S) -> S] : Range(q) = S}
        \cup {q \in [1..(Cardinality(S) + 1) -> S] : Range(q) = S}

\* the lists that hold each element of a set once: a hash set's iteration orders
Orders(S) == {q \in [1..Cardinality(S) -> S] : Range(q) = S}

NotComputed == [status |-> "none", reqs |-> {}, env |-> <<>>, tree |-> And(<<>>)]

\* the parameters markers can name, and two environments
VersionParams == {"python_version"}
StringParams == {"sys_platform", "os_name"}

MarkerEnvironments ==
    {[get_version |-> [x \in VersionParams |-> <<3, 11>>],
      get_string |-> [x \in StringParams |->
                          IF x = "sys_platform" THEN "linux" ELSE "posix"]],
     [get_version |-> [x \in VersionParams |-> <<3, 8>>],
      get_string |-> [x \in StringParams |->
                          IF x = "sys_platform" THEN "darwin" ELSE "posix"]]}

\* markers of requirements: a parameter on the right, parameters two levels down
\* beside `extra` and quoted strings, and no parameter at all
MarkerTrees ==
    {Expression(QuotedString("linux"), "Equal", MarkerEnvString("sys_platform")),
     And(<<Expression(Extra, "Equal", QuotedString("x")),
           Or(<<Expression(MarkerEnvVersion("python_version"), "GreaterEqual",
                           QuotedString("3.8")),
                Expression(QuotedString("posix"), "Equal",
                           MarkerEnvString("os_name"))>>)>>),
     Expression(Extra, "Equal", QuotedString("x")),
     Or(<<Expression(MarkerEnvString("sys_platform"), "Equal", QuotedString("linux")),
          Expression(QuotedString("darwin"), "Equal",
                     MarkerEnvString("sys_platform"))>>)}

\* where a requirement can stand: the metadata of a node, the manifest, an editable
RequirementSources ==
    {<<"requires_dist", NodePackageId(petgraph.nodes[i])>> : i \in 1..Len(petgraph.nodes)}
        \cup {<<"manifest">>, <<"editable">>}

\* a requirement: where it stands and its marker, if it has one
Requirements ==
    [source : RequirementSources, marker : {{t} : t \in MarkerTrees}]
        \cup {[source |-> <<"manifest">>, marker |-> {}]}

\* one call of marker_tree on the graph from_state returned
MarkerTree ==
    /\ pc = "done"
    /\ result = "Ok"
    /\ rendered = NotRendered
    /\ marker_out = NotComputed
    /\ \E reqs \in AtMostOne(Requirements), marker_env \in MarkerEnvironments :
       \E order \in Orders(SeenMarkerValues(reqs)) :
            marker_out' =
                [status |-> "Ok", reqs |-> reqs, env |-> marker_env,
                 tree |-> And([i \in 1..Len(order) |-> Conjunct(order[i], marker_env)])]
    /\ UNCHANGED <<urls, built>>
    /\ UNCHANGED <<input, pc, pending, current, next_dep, petgraph, inverse, hashes,
                   extras, markers, diagnostics, result, rendered>>

\* one call of fmt on the graph from_state returned
Render ==
    /\ pc = "done"
    /\ result = "Ok"
    /\ rendered = NotRendered
    /\ marker_out = NotComputed
    /\ \E opts \in RenderOptions : rendered' = Display(Locals, opts)
    /\ UNCHANGED <<urls, built>>
    /\ UNCHANGED <<input, pc, pending, current, next_dep, petgraph, inverse, hashes,
                   extras, markers, diagnostics, result, marker_out>>

\* ------------------------------------------------------------- inputs
\* The (package, version) pairs the solver can hand over
EntryUniverse ==
    {Entry(p, v) : p \in {q \in PubGrubPackage : /\ q.name \in {None} \cup VariedNames
                                                 /\ q.url \in {None} \cup VariedNames},
                   v \in Version}

NamedEntries(P) == {e \in P : e.pkg.kind = "Package"}

\* PubGrubPackage::from_package reads the url of a name from the one urls registry
UrlConsistent(P) ==
    \A a, b \in NamedEntries(P) : a.pkg.name = b.pkg.name => a.pkg.url = b.pkg.url

\* name[extra] depends on name at exactly its version: the solver selects both
ExtraHasBase(P) ==
    \A e \in NamedEntries(P) :
        (e.pkg.extra # None /\ e.pkg.marker = None)
            => Entry([e.pkg EXCEPT !.extra = None], e.version) \in P

RECURSIVE SetsUpTo(_, _)
SetsUpTo(S, k) ==
    IF k = 0 THEN {{}}
    ELSE LET smaller == SetsUpTo(S, k - 1)
         IN  smaller \cup {T \cup {x} : T \in {U \in smaller : UrlConsistent(U)}, x \in S}

PackagesInputs ==
    {P \in SetsUpTo(EntryUniverse, MaxEntries) : UrlConsistent(P) /\ ExtraHasBase(P)}

RealEntries(P) == {e \in P : IsReal(e.pkg)}

RealNames(P) == {e.pkg.name : e \in RealEntries(P)}

\* the metadata a missing-extra check reads: of the editable, the url or the pin
MetadataId(e, editables) ==
    IF e.pkg.name \in editables THEN <<"editable", e.pkg.name>>
    ELSE IF e.pkg.url # None THEN PackageIdUrl(e.pkg.url)
    ELSE PackageIdRegistry(e.pkg.name, e.version)

ExtraKeys(P, editables) ==
    {<<MetadataId(e, editables), e.pkg.extra>> :
        e \in {x \in NamedEntries(P) : x.pkg.extra # None /\ x.pkg.marker = None}}

\* names whose distribution is built by Dist::from_editable or Dist::from_url
Built(P, editables) ==
    {e.pkg.name : e \in {x \in NamedEntries(P) : x.pkg.marker = None
                            /\ (x.pkg.name \in editables \/ x.pkg.url # None)}}

RedirectKeys(P, editables) ==
    {e.pkg.url : e \in {x \in NamedEntries(P) : x.pkg.marker = None /\ x.pkg.url # None}}

\* packages without Root, without marker-conditioned identities
PlainInputs ==
    {P \in PackagesInputs : \A e \in P : e.pkg.kind = "Package" /\ e.pkg.marker = None}

\* packages of real identities only
RealInputs == {P \in PlainInputs : \A e \in P : IsReal(e.pkg)}

\* Inputs that vary the packages, the editables, the metadata and the redirects
InitNodes ==
    \E P \in PlainInputs, ed \in SUBSET VariedNames :
    \E br \in AtMostOne(Built(P, ed)), pr \in SUBSET ExtraKeys(P, ed),
       rd \in SUBSET RedirectKeys(P, ed) :
        input = [packages |-> P, editables |-> ed, broken |-> br, provides |-> pr,
                 redirects |-> rd, preferences |-> {}, found |-> PackageName,
                 dependencies |-> <<>>]

\* Inputs with Root and marker-conditioned identities, all of the first name
FirstName == CHOOSE n \in PackageName : \A m \in PackageName : n <= m

InitMarkers ==
    \E P \in PackagesInputs \ PlainInputs, ed \in {{}, {FirstName}} :
        /\ \A e \in NamedEntries(P) : e.pkg.name = FirstName
        /\ input = [packages |-> P, editables |-> ed, broken |-> {},
                    provides |-> ExtraKeys(P, ed), redirects |-> {}, preferences |-> {},
                    found |-> PackageName, dependencies |-> <<>>]

\* the list a lockfile holds for a version: not sorted, not the index's
LockedHashes(version) == <<version + 2, version>>

\* Inputs that vary where the hashes come from
InitHashes ==
    \E P \in RealInputs :
    \E locked \in SUBSET {<<e.pkg.name, e.version>> : e \in P},
       fd \in {{}, RealNames(P)} :
        input = [packages |-> P, editables |-> {}, broken |-> {}, provides |-> {},
                 redirects |-> {}, found |-> fd, dependencies |-> <<>>,
                 preferences |-> {<<k[1], k[2], LockedHashes(k[2])>> : k \in locked}]

\* One entry of resolution.dependencies: the names and the ranges asked for
DependencyEntries(names) ==
    {d \in [from : names, to : names,
            ranges : {{{v}} : v \in Version} \cup {{{v} : v \in Version}}] :
        d.from # d.to}

RECURSIVE SeqsUpTo(_, _)
SeqsUpTo(S, k) ==
    IF k = 0 THEN {<<>>}
    ELSE LET shorter == SeqsUpTo(S, k - 1)
         IN  shorter \cup {Append(q, x) : q \in shorter, x \in S}

\* Inputs that vary the dependencies between registry packages, every name selected
InitEdges ==
    \E P \in {Q \in RealInputs : RealNames(Q) = VariedNames
                                     /\ \A e \in Q : e.pkg.url = None} :
    \E deps \in SeqsUpTo(DependencyEntries(RealNames(P)), MaxDeps) :
        input = [packages |-> P, editables |-> {}, broken |-> {}, provides |-> {},
                 redirects |-> {}, preferences |-> {}, found |-> PackageName,
                 dependencies |-> deps]

\* Inputs of a fork: every name selected, at least one of them under a marker, and
\* one dependency between the names
InitForkEdges ==
    \E P \in {Q \in PackagesInputs \ PlainInputs :
                /\ {e.pkg.name : e \in Q} = VariedNames
                /\ \A e \in Q : e.pkg.url = None /\ e.pkg.extra = None} :
    \E dep \in DependencyEntries(VariedNames) :
        input = [packages |-> P, editables |-> {}, broken |-> {}, provides |-> {},
                 redirects |-> {}, preferences |-> {}, found |-> PackageName,
                 dependencies |-> <<dep>>]

\* Inputs where every name is selected as a registry package at one version, with
\* the dependencies between them varied: a package can have several requesters
InitRequesters ==
    \E v \in Version :
    \E deps \in SeqsUpTo(DependencyEntries(PackageName), MaxDeps) :
        input = [packages |-> {Entry(from_package(n, None, None, <<>>), v) :
                                    n \in PackageName},
                 editables |-> {}, broken |-> {}, provides |-> {},
                 redirects |-> {}, preferences |-> {}, found |-> PackageName,
                 dependencies |-> deps]

InitInput ==
    InitNodes \/ InitMarkers \/ InitHashes \/ InitEdges \/ InitForkEdges \/ InitRequesters

NoPackage == [kind |-> "none", name |-> None, extra |-> None, marker |-> None, url |-> None]

Init ==
    /\ InitInput
    /\ pending = input.packages
    /\ current = NoPackage
    /\ pc = IF input.packages = {} THEN "passB" ELSE "passA"
    /\ next_dep = 1
    /\ petgraph = EmptyLocals.petgraph
    /\ inverse = <<>>
    /\ hashes = <<>>
    /\ extras = <<>>
    /\ markers = <<>>
    /\ diagnostics = <<>>
    /\ result = "none"
    /\ rendered = NotRendered
    /\ marker_out = NotComputed
    /\ urls = <<>>
    /\ built = {}

Next == PassA \/ PassB \/ ReturnOk \/ Render \/ MarkerTree

Spec == Init /\ [][Next]_vars

\* ------------------------------------------- PubGrubPackage::from_package
\* the registries: a url declared for some of the names
UrlsRegistries ==
    UNION {[D -> VariedNames] : D \in SUBSET VariedNames}

NoInput ==
    [packages |-> {}, editables |-> {}, broken |-> {}, provides |-> {},
     redirects |-> {}, preferences |-> {}, found |-> {}, dependencies |-> <<>>]

\* the solver before any identity is built, with one fixed registry
InitIdentities ==
    /\ urls \in UrlsRegistries
    /\ built = {}
    /\ input = NoInput
    /\ pending = {}
    /\ current = NoPackage
    /\ pc = "identities"
    /\ next_dep = 1
    /\ petgraph = EmptyLocals.petgraph
    /\ inverse = <<>>
    /\ hashes = <<>>
    /\ extras = <<>>
    /\ markers = <<>>
    /\ diagnostics = <<>>
    /\ result = "none"
    /\ rendered = NotRendered
    /\ marker_out = NotComputed

\* one call of from_package
FromPackage ==
    /\ pc = "identities"
    /\ \E name \in VariedNames, extra \in {None} \cup ExtraName,
          marker \in {None} \cup MarkerId :
            built' = built \cup {from_package(name, extra, marker, urls)}
    /\ UNCHANGED <<input, pc, pending, current, next_dep, petgraph, inverse, hashes,
                   extras, markers, diagnostics, result, rendered, marker_out, urls>>

NextIdentities == FromPackage

SpecIdentities == InitIdentities /\ [][NextIdentities]_vars

\* ------------------------------------------------------------- claims
Returned == pc = "done" /\ result = "Ok"

Nodes == petgraph.nodes

NodesNamed(name) == {i \in 1..Len(Nodes) : Nodes[i].name = name}

\* C1 -- node uniqueness: once from_state has returned Ok, every name that is in
\* resolution.packages as a Package with extra = None and marker = None has exactly
\* one node, also when that identity has several versions.
C1_NodeUniqueness ==
    Returned => \A name \in RealNames(input.packages) :
                    Cardinality(NodesNamed(name)) = 1

\* the ranges resolution.dependencies gives for an ordered pair of names
RangesGiven(from, to) ==
    UNION {UNION input.dependencies[i].ranges :
             i \in {j \in 1..Len(input.dependencies) :
                      input.dependencies[j].from = from
                          /\ input.dependencies[j].to = to}}

PairGiven(from, to) ==
    \E i \in 1..Len(input.dependencies) :
        input.dependencies[i].from = from /\ input.dependencies[i].to = to

\* C2 -- edge range union: once from_state has returned Ok, the range on the edge
\* from -> to is the union of all the ranges resolution.dependencies gives for that
\* pair, also when the pair is in more than one entry.
C2_EdgeRangeUnion ==
    Returned => \A from, to \in PackageName :
        PairGiven(from, to) =>
            LET edge == <<inverse[from], inverse[to]>>
            IN  /\ edge \in DOMAIN petgraph.edges
                /\ petgraph.edges[edge] = RangesGiven(from, to)

\* the entries of resolution.packages that ask for an extra
ExtraEntries ==
    {e \in NamedEntries(input.packages) : e.pkg.extra # None /\ e.pkg.marker = None}

\* the extras the metadata of the base distribution of such an entry provides
BaseProvides(e) == ProvidesExtras(MetadataId(e, input.editables))

\* the extras the metadata of the distribution of a node provides
NodeProvides(dist) ==
    IF dist.kind = "editable" THEN EditableProvidesExtras(dist.name)
    ELSE IF dist.kind = "url" THEN ProvidesExtras(PackageIdUrl(dist.url.given))
    ELSE ProvidesExtras(PackageIdRegistry(dist.name, dist.version))

HasDiagnostic(name, extra) ==
    \E i \in 1..Len(diagnostics) :
        diagnostics[i].dist.name = name /\ diagnostics[i].extra = extra

\* C3 -- extra folding: once from_state has returned Ok, every extra in extras[name]
\* is provided by the metadata of the pinned distribution of name, and an extra
\* asked for that the base metadata does not provide is not in extras[name] and has
\* a MissingExtra diagnostic.
C3_ExtraFolding ==
    Returned =>
        /\ \A name \in DOMAIN extras : \A i \in NodesNamed(name) :
                Range(extras[name]) \subseteq NodeProvides(Nodes[i])
        /\ \A e \in ExtraEntries :
                e.pkg.extra \notin BaseProvides(e) =>
                    /\ e.pkg.extra \notin Range(Get(extras, e.pkg.name, <<>>))
                    /\ HasDiagnostic(e.pkg.name, e.pkg.extra)

\* from_state run to its end on a part of resolution.packages, in one of the orders
\* the loops can take: one package at a time, the versions of a package together
RECURSIVE VisitAll(_, _, _)
VisitAll(st, todo, cur) ==
    IF todo = {} \/ st.result = "Err" THEN st
    ELSE LET e == CHOOSE x \in todo : (\E o \in todo : o.pkg = cur) => x.pkg = cur
         IN  VisitAll(AddPackage(st, e), todo \ {e}, e.pkg)

RECURSIVE InstallAll(_, _)
InstallAll(st, i) ==
    IF i > Len(input.dependencies) \/ st.result = "Panic" THEN st
    ELSE InstallAll(InstallEdge(st, input.dependencies[i]), i + 1)

from_state(packages) ==
    LET visited == VisitAll(EmptyLocals, packages, NoPackage)
        installed == InstallAll(visited, 1)
    IN  IF visited.result = "Err" THEN visited
        ELSE IF installed.result = "Panic" THEN installed
        ELSE [installed EXCEPT !.result = "Ok"]

\* the packages without the entries that ask for an extra
WithoutExtras == input.packages \ ExtraEntries

MissingEntries == {e \in ExtraEntries : e.pkg.extra \notin BaseProvides(e)}

\* the entries whose distribution cannot be built: these make from_state return Err
BrokenEntries ==
    {e \in NamedEntries(input.packages) :
        /\ e.pkg.marker = None
        /\ IsBroken(e.pkg.name)
        /\ (IsEditable(e.pkg.name) \/ e.pkg.url # None)}

\* C4 -- an extra the base distribution does not provide never aborts construction:
\* from_state returns Err only where a distribution cannot be built, and where it
\* returns Ok with such an extra asked for, the nodes are those of the same input
\* without the extra identities, and every such extra has a diagnostic.
C4_MissingExtraNeverAborts ==
    /\ (pc = "done" /\ result = "Err") => BrokenEntries # {}
    /\ (Returned /\ MissingEntries # {}) =>
            /\ Len(Nodes) = Len(from_state(WithoutExtras).petgraph.nodes)
            /\ Range(Nodes) = Range(from_state(WithoutExtras).petgraph.nodes)
            /\ \A e \in MissingEntries : HasDiagnostic(e.pkg.name, e.pkg.extra)

C4_Witness ==
    /\ Returned
    /\ MissingEntries # {}
    /\ Nodes # <<>>
    /\ Len(diagnostics) = Cardinality(MissingEntries)

\* C5 -- hash sorting: once from_state has returned Ok, every list in the hashes
\* table is in ascending order, whichever source the hashes came from.
C5_HashSorting ==
    Returned => \A name \in DOMAIN hashes : IsSorted(hashes[name])

\* the hashes the resolution order of the specification gives one (name, version)
HashesFor(name, version) ==
    IF match_hashes(name, version) # {} THEN match_hashes(name, version)
    ELSE IF IsFound(name) THEN {sort_unstable(VersionMapHashes(name, version))}
    ELSE {}

\* C6 -- hash resolution order: once from_state has returned Ok, for every node
\* (name, version), hashes[name] is the list preferences.match_hashes returns if it
\* returns one, else the hashes of the index's version map for that version if the
\* index has a Found map for name, else name has no entry in the table.
C6_HashResolutionOrder ==
    Returned => \A e \in RealEntries(input.packages) :
        LET name == e.pkg.name
        IN  IF HashesFor(name, e.version) = {} THEN name \notin DOMAIN hashes
            ELSE name \in DOMAIN hashes /\ hashes[name] \in HashesFor(name, e.version)

Lines == rendered.out

\* C7 -- render ordering: in what fmt writes, the lines of editables come before
\* the lines of the other nodes, the editables in ascending order of their verbatim
\* string, the others in ascending order of package name.
C7_RenderOrdering ==
    rendered.status = "Ok" =>
        \A i, j \in 1..Len(Lines) : i < j =>
            LET a == Lines[i].line
                b == Lines[j].line
            IN  /\ ~(a.form = "==" /\ b.form = "-e")
                /\ a.form = b.form => a.text <= b.text

\* an editable whose name is greater than the name of a registry node was on the
\* first line, both rendered
C7_Witness ==
    /\ rendered.status = "Ok"
    /\ Len(Lines) = 2
    /\ Lines[1].line.form = "-e"
    /\ Lines[2].line.form = "=="
    /\ \E i, j \in 1..Len(Nodes) :
            /\ IsEditable(Nodes[i].name)
            /\ ~IsEditable(Nodes[j].name)
            /\ Nodes[i].name > Nodes[j].name
            /\ i > j

\* C8 -- render determinism: for one input and fixed options, what fmt writes for
\* the graph built is the same whatever order the builder visited
\* resolution.packages and the versions of a package in.
C8_RenderDeterminism ==
    rendered.status # "none" =>
        rendered = Display(from_state(input.packages), rendered.opts)

\* C9 -- rendering completes: fmt on a graph from_state returned never meets a
\* fatal assertion, and writes `<name> @ <url>` for a node built from a url.
C9_RenderingCompletes ==
    rendered.status # "none" =>
        /\ rendered.status = "Ok"
        /\ \A i \in 1..Len(Nodes) :
                (Nodes[i].kind = "url" /\ Nodes[i].name \notin rendered.opts.no_emit_packages)
                    => \E k \in 1..Len(Lines) :
                            /\ Lines[k].line.form = "@"
                            /\ Lines[k].line.text = Nodes[i].name

\* a marker value stands on a side of an expression of the tree, at any depth
RECURSIVE Occurs(_, _)
Occurs(value, tree) ==
    IF tree.op = "Expression" THEN value \in {tree.l_value, tree.r_value}
    ELSE \E i \in 1..Len(tree.args) : Occurs(value, tree.args[i])

OccursInRequirements(value) ==
    \E r \in marker_out.reqs : \E t \in r.marker : Occurs(value, t)

\* C10 -- marker soundness: the tree marker_tree returns is a conjunction that
\* holds, for every environment parameter on either side of an expression at any
\* depth of the marker of a requirement of a node's metadata, of the manifest or of
\* an editable, the term `parameter == value` with the value of marker_env.
C10_MarkerSoundness ==
    marker_out.status = "Ok" =>
        LET terms == Range(marker_out.tree.args)
            env == marker_out.env
        IN  /\ marker_out.tree.op = "And"
            /\ \A p \in VersionParams :
                    OccursInRequirements(MarkerEnvVersion(p)) =>
                        Expression(MarkerEnvVersion(p), "Equal",
                                   QuotedString(VersionToString(env.get_version[p])))
                            \in terms
            /\ \A p \in StringParams :
                    OccursInRequirements(MarkerEnvString(p)) =>
                        Expression(MarkerEnvString(p), "Equal",
                                   QuotedString(env.get_string[p])) \in terms

\* the marker of the metadata of a node names a version parameter two levels down
\* and a string parameter on the right side, and the tree has a term for both
C10_Witness ==
    /\ marker_out.status = "Ok"
    /\ Len(marker_out.tree.args) = 2
    /\ \E r \in marker_out.reqs :
            /\ r.source[1] = "requires_dist"
            /\ \E t \in r.marker : t.op = "And"
    /\ OccursInRequirements(MarkerEnvVersion("python_version"))
    /\ OccursInRequirements(MarkerEnvString("os_name"))

\* the marker comment the side table holds for a pin: none, or the one recorded
RecordedMarker(name, version) ==
    IF <<name, version>> \in DOMAIN markers THEN {markers[<<name, version>>]} ELSE {}

\* a line `<name>==<version>` of what fmt wrote
IsLineOf(line, name, version) ==
    line.form = "==" /\ line.text = name /\ line.version = version

Emitted(name) == ~IsEditable(name) /\ name \notin rendered.opts.no_emit_packages

\* C11 as stated -- every (name, version) key of the markers table, name not
\* editable and not in no_emit_packages, has a line in what fmt writes, and that
\* line carries the recorded marker as a trailing comment; lines of pins without a
\* recorded marker carry no comment.
C11_MarkerKeysRendered ==
    rendered.status = "Ok" =>
        /\ \A key \in DOMAIN markers : Emitted(key[1]) =>
                \E k \in 1..Len(Lines) :
                    /\ IsLineOf(Lines[k].line, key[1], key[2])
                    /\ Lines[k].line.comment = {markers[key]}
        /\ \A k \in 1..Len(Lines) :
                (Lines[k].line.form = "=="
                    /\ <<Lines[k].line.text, Lines[k].line.version>> \notin DOMAIN markers)
                    => Lines[k].line.comment = {}

\* C11 amended -- every node of the graph that fmt writes as a distribution line
\* carries the marker recorded for its (name, version) as a trailing comment, and
\* no comment when none is recorded; a key of the markers table that no node has
\* gets no line.
C11_MarkerComments ==
    rendered.status = "Ok" =>
        /\ \A i \in 1..Len(Nodes) : Emitted(Nodes[i].name) =>
                \E k \in 1..Len(Lines) :
                    /\ IsLineOf(Lines[k].line, Nodes[i].name, Nodes[i].version)
                    /\ Lines[k].line.comment
                            = RecordedMarker(Nodes[i].name, Nodes[i].version)
        /\ \A k \in 1..Len(Lines) : Lines[k].line.form = "==" =>
                /\ Lines[k].line.comment
                        = RecordedMarker(Lines[k].line.text, Lines[k].line.version)
                /\ \E i \in 1..Len(Nodes) :
                        IsLineOf(Lines[k].line, Nodes[i].name, Nodes[i].version)

\* two pins of one name were written without their extras, one with the marker
\* recorded for it and one without a comment
C11_Witness ==
    /\ rendered.status = "Ok"
    /\ ~rendered.opts.include_extras
    /\ \E j, k \in 1..Len(Lines) :
            /\ Lines[j].line.comment # {}
            /\ Lines[j].line.comment
                    = RecordedMarker(Lines[j].line.text, Lines[j].line.version)
            /\ Lines[k].line.form = "=="
            /\ Lines[k].line.comment = {}

\* what from_state leaves of Pass A, without the order inside its lists: the node
\* distributions, the distribution each name is associated with for the edges, and
\* the side tables
PassAResult(st) ==
    [result |-> st.result,
     nodes |-> Range(st.petgraph.nodes),
     association |-> [n \in DOMAIN st.inverse |-> st.petgraph.nodes[st.inverse[n]]],
     hashes |-> st.hashes,
     extras |-> [n \in DOMAIN st.extras |-> Range(st.extras[n])],
     markers |-> [k \in DOMAIN st.markers |-> Range(st.markers[k])],
     diagnostics |-> Range(st.diagnostics)]

\* C12 -- Pass A is order-insensitive: for one input, every order of visiting the
\* (identity, version) entries of resolution.packages gives the same result of
\* from_state: the same node distributions, the same name -> node association,
\* the same hashes, extras, markers and diagnostics.
C12_PassAOrderInsensitive ==
    (pc = "done" /\ result \in {"Ok", "Err"}) =>
        PassAResult(Locals) = PassAResult(from_state(input.packages))

\* the names of the entries of resolution.dependencies
Endpoints ==
    UNION {{input.dependencies[i].from, input.dependencies[i].to} :
             i \in 1..Len(input.dependencies)}

\* the names resolution.packages holds under some Package identity
SelectedNames == {e.pkg.name : e \in NamedEntries(input.packages)}

\* C13 as stated -- edge endpoints exist: when both names of every entry of
\* resolution.dependencies are in resolution.packages under some Package identity,
\* with or without a marker, extra or url, Pass B finds both node indices and
\* from_state meets no fatal assertion on a missing endpoint.
C13_SelectedEndpointsExist ==
    Endpoints \subseteq SelectedNames =>
        /\ result # "Panic"
        /\ Returned => Endpoints \subseteq DOMAIN inverse

\* C13 amended -- when both names of every entry of resolution.dependencies are in
\* resolution.packages under an identity with extra = None and marker = None, Pass
\* B finds both node indices and from_state meets no fatal assertion; it meets one
\* only for an entry with a name that has no such identity.
C13_EndpointsExist ==
    /\ Endpoints \subseteq RealNames(input.packages) =>
            /\ result # "Panic"
            /\ Returned => Endpoints \subseteq DOMAIN inverse
    /\ result = "Panic" => ~(Endpoints \subseteq RealNames(input.packages))

\* from_state returned a graph with an edge between two names of a fork: one of
\* them is in resolution.packages under a marker and without one
C13_Witness ==
    /\ Returned
    /\ DOMAIN petgraph.edges # {}
    /\ \E e \in NamedEntries(input.packages) :
            e.pkg.marker # None /\ e.pkg.name \in Endpoints

\* the entries Pass A had visited when from_state returned
Visited == input.packages \ pending

\* C14 -- fatal errors discard the partial graph: if Dist::from_editable or
\* Dist::from_url fails for an entry of Pass A, from_state returns the error and
\* no graph, no side tables and no diagnostics, whatever had been accumulated
\* before the failing entry; nothing is left to render or to compute markers of.
C14_FatalErrorsDiscard ==
    /\ (pc = "done" /\ BrokenEntries # {}) => result = "Err"
    /\ result = "Err" =>
            /\ pc = "done"
            /\ petgraph = EmptyLocals.petgraph
            /\ inverse = <<>> /\ hashes = <<>> /\ extras = <<>> /\ markers = <<>>
            /\ diagnostics = <<>>
            /\ rendered = NotRendered
            /\ marker_out = NotComputed

\* from_state returned the error after it had added a node and had handled an
\* entry asking for an extra
C14_Witness ==
    /\ result = "Err"
    /\ \E e \in Visited : IsReal(e.pkg)
    /\ \E e \in Visited : e.pkg.kind = "Package" /\ e.pkg.extra # None

\* the package name of the node a written line belongs to
LineName(line) ==
    IF line.form = "-e" THEN CHOOSE n \in PackageName : EditableVerbatim(n) = line.text
    ELSE line.text

\* what fmt writes for the same graph and options with no name filtered
Unfiltered == Display(Locals, [rendered.opts EXCEPT !.no_emit_packages = {}])

\* C15 -- no_emit_packages filtering: what fmt writes has no line for a node whose
\* name is in no_emit_packages and exactly one line for every other node of the
\* graph; filtering a name changes neither the lines nor the relative order of the
\* remaining nodes.
C15_NoEmitFiltering ==
    rendered.status # "none" =>
        LET hidden == rendered.opts.no_emit_packages
            Kept(l) == LineName(l.line) \notin hidden
        IN  /\ rendered.status = "Ok"
            /\ \A k \in 1..Len(Lines) : Kept(Lines[k])
            /\ Len(Lines) = Cardinality({i \in 1..Len(Nodes) : Nodes[i].name \notin hidden})
            /\ \A i \in 1..Len(Nodes) : Nodes[i].name \notin hidden =>
                    \E k \in 1..Len(Lines) : LineName(Lines[k].line) = Nodes[i].name
            /\ Unfiltered.status = "Ok"
            /\ Lines = SelectSeq(Unfiltered.out, Kept)

\* C16 -- from_package takes the url of the identity from the registry entry of its
\* name and from nothing else: for a fixed registry all identities built for one
\* name, with any extras and markers, carry the registry's url of that name or all
\* carry none; a url form and a registry form of one name are never both built.
C16_UrlFromRegistry ==
    /\ \A p \in built :
            p.url = IF p.name \in DOMAIN urls THEN urls[p.name] ELSE None
    /\ \A p, q \in built : p.name = q.name => p.url = q.url

\* identities of one name were built with and without an extra and a marker, all
\* with the registry's url, which is not the name's own number, and an identity of
\* a name the registry does not hold was built without a url
C16_Witness ==
    /\ \E p, q \in built :
            /\ p.name = q.name
            /\ p.extra = None /\ q.extra # None /\ p.marker # q.marker
            /\ p.url # None /\ p.url # p.name /\ q.url = p.url
    /\ \E p \in built : p.url = None

\* the marker-conditioned identities the marker arm of from_state matches
MarkerEntries ==
    {e \in NamedEntries(input.packages) :
        e.pkg.extra = None /\ e.pkg.marker # None /\ e.pkg.url = None}

MarkersGiven(name, version) ==
    {e.pkg.marker : e \in {x \in MarkerEntries : x.pkg.name = name /\ x.version = version}}

\* the entry a step of Pass A has handled
Handled(e) == pc = "passA" /\ result' # "Err" /\ e \in pending /\ pending' = pending \ {e}

\* C17 -- marker accumulation: once from_state has returned Ok, markers has a key
\* (name, version) exactly where resolution.packages holds an identity with that
\* name, a marker, no extra and no url at that version, and its value is the
\* disjunction of exactly those markers; handling such an identity adds no node,
\* no hashes and no extras, and handling an identity that has a marker together
\* with an extra or a url, or Root, changes nothing.
C17_MarkerAccumulation ==
    /\ [](Returned =>
            /\ DOMAIN markers = {<<e.pkg.name, e.version>> : e \in MarkerEntries}
            /\ \A key \in DOMAIN markers :
                    /\ Range(markers[key]) = MarkersGiven(key[1], key[2])
                    /\ Len(markers[key]) = Cardinality(MarkersGiven(key[1], key[2])))
    /\ [][\A e \in pending : Handled(e) =>
            /\ e \in MarkerEntries =>
                    UNCHANGED <<petgraph, inverse, hashes, extras, diagnostics>>
            /\ (e.pkg.kind = "Root" \/ (e.pkg.marker # None /\ e \notin MarkerEntries)) =>
                    UNCHANGED <<petgraph, inverse, hashes, extras, diagnostics, markers>>
       ]_vars

\* from_state returned a graph with a node whose pin was selected under two markers
C17_Witness ==
    /\ Returned
    /\ \E i \in 1..Len(Nodes) :
            /\ <<Nodes[i].name, Nodes[i].version>> \in DOMAIN markers
            /\ Len(markers[<<Nodes[i].name, Nodes[i].version>>]) = 2

\* the entries of resolution.packages that make from_state add a node
EditableEntries == {e \in RealEntries(input.packages) : IsEditable(e.pkg.name)}

\* C18 -- editable override: for every name in editables, the node from_state
\* builds holds the editable distribution whether the identity has a url or not,
\* whatever the pin table and the redirect table hold, and what fmt writes for
\* that node is `-e <verbatim>` with no extras and no marker comment, also with
\* include_extras set and extras or markers recorded for the name.
C18_EditableOverride ==
    /\ Returned =>
            /\ \A e \in EditableEntries : NodesNamed(e.pkg.name) # {}
            /\ \A i \in 1..Len(Nodes) :
                    IsEditable(Nodes[i].name) => Nodes[i] = from_editable(Nodes[i].name)
    /\ rendered.status = "Ok" =>
            /\ \A i \in 1..Len(Nodes) :
                    (IsEditable(Nodes[i].name)
                        /\ Nodes[i].name \notin rendered.opts.no_emit_packages) =>
                        \E k \in 1..Len(Lines) :
                            Lines[k].line = [form |-> "-e",
                                             text |-> EditableVerbatim(Nodes[i].name),
                                             extras |-> <<>>, version |-> None,
                                             comment |-> {}]
            /\ \A k \in 1..Len(Lines) :
                    Lines[k].line.form = "==" => ~IsEditable(Lines[k].line.text)

\* an editable name selected under a url that the redirect table holds, with an
\* extra recorded for it, was written with include_extras set
C18_Witness ==
    /\ rendered.status = "Ok"
    /\ rendered.opts.include_extras
    /\ \E e \in EditableEntries :
            /\ e.pkg.url # None
            /\ e.pkg.url \in input.redirects
            /\ e.pkg.name \in DOMAIN extras
            /\ \E k \in 1..Len(Lines) :
                    Lines[k].line.form = "-e"
                        /\ Lines[k].line.text = EditableVerbatim(e.pkg.name)

\* the non-editable identities from_state builds a url distribution for
UrlEntries ==
    {e \in RealEntries(input.packages) : e.pkg.url # None /\ ~IsEditable(e.pkg.name)}

\* the url a distribution is to be built from: the fetch target replaced by the
\* precise url where the redirect table has an entry, the url as given otherwise
ExpectedUrl(u) ==
    IF u \in input.redirects THEN [raw |-> Precise(u), given |-> u]
    ELSE [raw |-> u, given |-> u]

\* C19 -- url redirect at materialization: for a non-editable identity with a url
\* and no extra and marker, the distribution of the node is built from
\* apply_redirect(u, redirects[u]) when the redirect table has an entry for u and
\* from u unchanged when it has none; the MissingExtra diagnostic of a url
\* identity carries a distribution built from the same redirected url.
C19_UrlRedirect ==
    Returned =>
        /\ \A e \in UrlEntries :
                /\ NodesNamed(e.pkg.name) # {}
                /\ \A i \in NodesNamed(e.pkg.name) :
                        Nodes[i] = [kind |-> "url", name |-> e.pkg.name, version |-> None,
                                    url |-> ExpectedUrl(e.pkg.url)]
        /\ \A e \in MissingEntries :
                (e.pkg.url # None /\ ~IsEditable(e.pkg.name)) =>
                    \E k \in 1..Len(diagnostics) :
                        /\ diagnostics[k].extra = e.pkg.extra
                        /\ diagnostics[k].dist
                                = [kind |-> "url", name |-> e.pkg.name, version |-> None,
                                   url |-> ExpectedUrl(e.pkg.url)]

\* from_state returned a graph with a url node whose url the redirect table holds
\* and a MissingExtra diagnostic for the same name, and with a url node whose url
\* the table does not hold
C19_Witness ==
    /\ Returned
    /\ \E e \in UrlEntries :
            /\ e.pkg.url \in input.redirects
            /\ \E i \in NodesNamed(e.pkg.name) : Nodes[i].url.raw # Nodes[i].url.given
            /\ HasDiagnostic(e.pkg.name, 1)
    /\ \E e \in UrlEntries :
            /\ e.pkg.url \notin input.redirects
            /\ \E i \in NodesNamed(e.pkg.name) : Nodes[i].url.raw = e.pkg.url

\* the environment parameters the markers of the requirements read name
ParametersNamed ==
    {MarkerEnvVersion(p) : p \in {x \in VersionParams :
                                    OccursInRequirements(MarkerEnvVersion(x))}}
        \cup {MarkerEnvString(p) : p \in {x \in StringParams :
                                            OccursInRequirements(MarkerEnvString(x))}}

\* C20 -- marker synthesis is exact on parameters: the conjunction marker_tree
\* returns has exactly one conjunct per distinct environment parameter collected
\* and no other; `extra` and quoted strings give no conjunct, a parameter named
\* many times gives one, and with no parameter named the conjunction is empty.
C20_MarkerSynthesisExact ==
    marker_out.status = "Ok" =>
        LET terms == marker_out.tree.args
        IN  /\ marker_out.tree.op = "And"
            /\ Len(terms) = Cardinality(ParametersNamed)
            /\ {terms[i].l_value : i \in 1..Len(terms)} = ParametersNamed
            /\ \A i \in 1..Len(terms) :
                    /\ terms[i].op = "Expression"
                    /\ terms[i].operator = "Equal"
                    /\ terms[i].r_value.kind = "QuotedString"
            /\ ParametersNamed = {} => marker_out.tree = And(<<>>)

\* a marker that names one parameter on both sides of two expressions gave one
\* conjunct
C20_Witness ==
    /\ marker_out.status = "Ok"
    /\ Len(marker_out.tree.args) = 1
    /\ \E r \in marker_out.reqs : \E t \in r.marker :
            /\ t.op = "Or"
            /\ Len(t.args) = 2
            /\ t.args[1].l_value = MarkerEnvString("sys_platform")
            /\ t.args[2].r_value = MarkerEnvString("sys_platform")

\* the nodes whose lines fmt wrote, in the order of the lines
RenderedNodes == SortNodes(Collected(Locals, rendered.opts))

\* the sources of the edges of the graph into the node at index
Requesters(index) == {i \in 1..Len(Nodes) : <<i, index>> \in DOMAIN petgraph.edges}

\* C21 -- via annotations: with include_annotations set, the annotation of a
\* rendered node lists exactly the package names of the sources of its incoming
\* edges, each requester once, in ascending name order, requesters filtered by
\* no_emit_packages included; a node with no incoming edge gets no annotation; in
\* Split style one requester gives a single `# via <name>` line and several give a
\* `# via` line followed by one line per requester; in Line style they are on one
\* `# via a, b` comment.
C21_ViaAnnotations ==
    (rendered.status = "Ok" /\ rendered.opts.include_annotations) =>
        \A k \in 1..Len(Lines) :
            LET sources == Requesters(RenderedNodes[k].index)
                a == Lines[k].annotation
            IN  /\ Len(a.deps) = Cardinality(sources)
                /\ Range(a.deps) = {Nodes[i].name : i \in sources}
                /\ \A i, j \in 1..Len(a.deps) : i < j => a.deps[i] < a.deps[j]
                /\ a.shape = "none" <=> sources = {}
                /\ (rendered.opts.annotation_style = "Split" /\ Cardinality(sources) = 1)
                        => a.shape = "    # via a"
                /\ (rendered.opts.annotation_style = "Split" /\ Cardinality(sources) > 1)
                        => a.shape = "    # via\n    #   a"
                /\ (rendered.opts.annotation_style = "Line" /\ sources # {})
                        => a.shape = "# via a, b"

\* fmt wrote, in Split style, the line of a node with two requesters, the greater
\* of them added to the graph before the lesser, one of them filtered by
\* no_emit_packages
C21_Witness ==
    /\ rendered.status = "Ok"
    /\ rendered.opts.include_annotations
    /\ rendered.opts.annotation_style = "Split"
    /\ \E k \in 1..Len(Lines) :
            /\ Len(Lines[k].annotation.deps) = 2
            /\ \E d \in Range(Lines[k].annotation.deps) : d \in rendered.opts.no_emit_packages
            /\ \E i, j \in Requesters(RenderedNodes[k].index) :
                    i < j /\ Nodes[i].name > Nodes[j].name

====
